---- MODULE Spec2Model ----
(***************************************************************************)
(* The local speech services of discord-ai-bot as one state machine: a     *)
(* service process loads its model at import time and then serves HTTP     *)
(* requests on Flask threads.  One process runs one of the services; the   *)
(* request handlers are modelled step by step, one thread per request.     *)
(***************************************************************************)
EXTENDS Integers, Sequences, FiniteSets, TLC

\* Number of request threads the Flask server runs side by side.
NumRequests == 2

Requests == 1..NumRequests

\* The service processes of the repository (one source file each).
STT_OPT == "local_stt_server_optimized"
TTS_OPT == "local_tts_server_optimized"
STT_BASE == "local_stt_server"
TTS_OLD == "local_tts_server_old"
TTS_SOFT == "soft_female_tts_server"
TTS_VITS == "upgraded_tts_server"

Services == {STT_OPT, TTS_OPT, STT_BASE, TTS_OLD, TTS_SOFT, TTS_VITS}

\* The services that synthesize with the VITS model.
Vits == {TTS_SOFT, TTS_VITS}

\* Services whose model call is wrapped by gpu_memory_manager.
Optimized == {STT_OPT, TTS_OPT}

\* Services that transcribe an uploaded audio file.
Transcribers == {STT_OPT, STT_BASE}

Unset == "unset"

\* whisper.load_model("base") / the env default "whisper-medium" / SpeechT5 /
\* VitsModel.from_pretrained("facebook/mms-tts-rus").
PrimaryModel(svc) ==
    CASE svc = STT_OPT -> "base"
      [] svc = STT_BASE -> "medium"
      [] svc \in Vits -> "facebook/mms-tts-rus"
      [] OTHER -> "microsoft/speecht5_tts"

\* whisper.load_model("tiny") in the except branch of the module load.
FallbackModel == "tiny"

\* Only the optimized STT service names a smaller model to fall back to.
HasFallback(svc) == svc = STT_OPT

\* set_per_process_memory_fraction(0.4) / (0.6), in percent.
MemoryFraction(svc) == IF svc = STT_OPT THEN 40 ELSE 60

\* Routes of each service.
Endpoints(svc) ==
    CASE svc = STT_OPT -> {"/v1/audio/transcriptions", "/transcribe"}
      [] svc = STT_BASE -> {"/v1/audio/transcriptions"}
      [] OTHER -> {"/v1/audio/speech", "/synthesize"}

\* What a request may carry: the uploaded file part and the text field.
None == "None"
FileInputs == {None, "", "audio.wav"}

\* The request has no JSON object for a body (request.get_json() is None).
NoData == "NoData"
TextInputs == {NoData, None, "", "privet"}

\* The language field of the upload form, as the clients of the repository
\* send it (None stands for an absent field or one that was never read).
LanguageInputs == {"auto", "en"}

\* str(e) of a failure of the model collaborator other than out-of-memory.
ModelMessages == {"decode failed"}

\* str(e) of torch.cuda.OutOfMemoryError.
OomMessage == "CUDA out of memory"

\* The message of the Exception the guard raises in its OutOfMemoryError branch.
ExhaustedMessage(svc) ==
    IF svc = STT_OPT
    THEN "GPU memory exhausted during transcription. Try shorter audio or restart the service."
    ELSE "GPU memory exhausted. Try shorter text or restart the service."

VARIABLES
    service,          \* which service this process is
    cuda,             \* torch.cuda.is_available()
    loadpc,           \* position of the module-level code
    model_name,       \* identifier of the loaded model
    memory_fraction,  \* per-process memory cap in percent, 0 when never set
    boot,             \* housekeeping done by the module-level code, in order
    downgrades,       \* how often the fallback model replaced the primary
    loads,            \* the load_model calls so far: identifier and outcome
    pc,               \* position of each request thread
    req,              \* the request each thread received
    events,           \* model calls and housekeeping of each request, in order
    outcome,          \* what the model call of each request came to
    errmsg,           \* str(e) of the model's failure
    raised,           \* message of the exception that left the guard
    attempt,          \* model identifier that served each request
    tmpfile,          \* state of the temporary upload file of each request
    response,         \* HTTP response of each request
    language,         \* language argument of each request's model.transcribe
    normalizer,       \* the service whose preprocess_russian_text is applied
    text,             \* the text the handler received
    step,             \* position inside preprocess_russian_text
    result,           \* the local variable text of preprocess_russian_text
    samples,          \* the waveform the model returned
    stage,            \* position inside enhance_voice_quality and after it
    audio,            \* the working waveform
    sample_rate       \* the sample rate the waveform is declared to have

\* State of the text normalizer and of the audio enhancer taken on their own.
normvars == <<normalizer, text, step, result>>
enhvars == <<samples, stage, audio, sample_rate>>
purevars == <<normvars, enhvars>>

vars == <<service, cuda, loadpc, model_name, memory_fraction, boot, downgrades,
          loads, pc, req, events, outcome, errmsg, raised, attempt, tmpfile, response,
          language, purevars>>

procvars == <<service, cuda, loadpc, model_name, memory_fraction, boot, downgrades,
              loads>>

NoRequest == [endpoint |-> None, file |-> None, text |-> None, language |-> None]
NoResponse == [status |-> 0, body |-> ""]

\* No text is being normalized, no waveform enhanced.
NormIdle == normalizer = Unset /\ text = <<>> /\ step = "idle" /\ result = <<>>
EnhIdle == samples = <<>> /\ stage = "idle" /\ audio = <<>> /\ sample_rate = 0

\* No service process is running.
ServerIdle ==
    /\ service = Unset
    /\ cuda = FALSE
    /\ loadpc = "import"
    /\ model_name = Unset
    /\ memory_fraction = 0
    /\ boot = <<>>
    /\ downgrades = 0
    /\ loads = <<>>
    /\ pc = [r \in Requests |-> "idle"]
    /\ req = [r \in Requests |-> NoRequest]
    /\ events = [r \in Requests |-> <<>>]
    /\ outcome = [r \in Requests |-> "none"]
    /\ errmsg = [r \in Requests |-> ""]
    /\ raised = [r \in Requests |-> ""]
    /\ attempt = [r \in Requests |-> Unset]
    /\ tmpfile = [r \in Requests |-> "none"]
    /\ response = [r \in Requests |-> NoResponse]
    /\ language = [r \in Requests |-> Unset]

Init ==
    /\ NormIdle
    /\ EnhIdle
    /\ language = [r \in Requests |-> Unset]
    /\ service \in Services
    /\ cuda \in BOOLEAN
    /\ loadpc = "import"
    /\ model_name = Unset
    /\ memory_fraction = 0
    /\ boot = <<>>
    /\ downgrades = 0
    /\ loads = <<>>
    /\ pc = [r \in Requests |-> "idle"]
    /\ req = [r \in Requests |-> NoRequest]
    /\ events = [r \in Requests |-> <<>>]
    /\ outcome = [r \in Requests |-> "none"]
    /\ errmsg = [r \in Requests |-> ""]
    /\ raised = [r \in Requests |-> ""]
    /\ attempt = [r \in Requests |-> Unset]
    /\ tmpfile = [r \in Requests |-> "none"]
    /\ response = [r \in Requests |-> NoResponse]

reqvars == <<pc, req, events, outcome, errmsg, raised, attempt, tmpfile, response>>

servervars == <<procvars, reqvars, language>>

(***************************************************************************)
(* Module-level code: memory cap, model load, post-load cleanup.           *)
(***************************************************************************)

\* A module load that never caps the process's share of accelerator memory.
module_init_no_cap ==
    /\ loadpc = "import"
    /\ memory_fraction' = 0
    /\ boot' = IF cuda /\ service \in Optimized THEN <<"empty_cache">> ELSE <<>>
    /\ loadpc' = "load_primary"
    /\ UNCHANGED <<service, cuda, loads, model_name, downgrades, reqvars>>
    /\ UNCHANGED <<language, purevars>>

\* if torch.cuda.is_available(): set_per_process_memory_fraction; empty_cache
module_init ==
    /\ loadpc = "import"
    /\ memory_fraction' =
          IF cuda /\ service \in Optimized THEN MemoryFraction(service) ELSE 0
    /\ boot' = IF cuda /\ service \in Optimized
               THEN <<"set_fraction", "empty_cache">> ELSE <<>>
    /\ loadpc' = "load_primary"
    /\ UNCHANGED <<service, cuda, loads, model_name, downgrades, reqvars>>
    /\ UNCHANGED <<language, purevars>>

\* The first load succeeds: model_name names the primary model.
load_primary_ok ==
    /\ loadpc = "load_primary"
    /\ model_name' = PrimaryModel(service)
    /\ loads' = Append(loads, [name |-> PrimaryModel(service), outcome |-> "ok"])
    /\ loadpc' = "loaded"
    /\ UNCHANGED <<service, cuda, memory_fraction, boot, downgrades, reqvars>>
    /\ UNCHANGED <<language, purevars>>

\* except torch.cuda.OutOfMemoryError: empty the cache and go on to load tiny.
load_primary_oom ==
    /\ loadpc = "load_primary"
    /\ cuda
    /\ HasFallback(service)
    /\ boot' = Append(boot, "empty_cache")
    /\ loads' = Append(loads, [name |-> PrimaryModel(service), outcome |-> "oom"])
    /\ loadpc' = "load_fallback"
    /\ UNCHANGED <<service, cuda, model_name, memory_fraction, downgrades, reqvars>>
    /\ UNCHANGED <<language, purevars>>

\* Any exception the module does not catch ends the process before it serves.
load_primary_error ==
    /\ loadpc = "load_primary"
    /\ loads' = Append(loads, [name |-> PrimaryModel(service), outcome |-> "error"])
    /\ loadpc' = "crashed"
    /\ UNCHANGED <<service, cuda, model_name, memory_fraction, boot, downgrades, reqvars>>
    /\ UNCHANGED <<language, purevars>>

\* model = whisper.load_model("tiny"); model_name = "tiny"
load_fallback_ok ==
    /\ loadpc = "load_fallback"
    /\ model_name' = FallbackModel
    /\ downgrades' = downgrades + 1
    /\ loads' = Append(loads, [name |-> FallbackModel, outcome |-> "ok"])
    /\ loadpc' = "loaded"
    /\ UNCHANGED <<service, cuda, memory_fraction, boot, reqvars>>
    /\ UNCHANGED <<language, purevars>>

\* A module that swallows the failure of the fallback load and serves anyway.
load_fallback_error_serves ==
    /\ loadpc = "load_fallback"
    /\ loads' = Append(loads, [name |-> FallbackModel, outcome |-> "error"])
    /\ loadpc' = "serving"
    /\ UNCHANGED <<service, cuda, model_name, memory_fraction, boot, downgrades, reqvars>>
    /\ UNCHANGED <<language, purevars>>

\* The load of tiny is inside no try: its failure ends the process.
load_fallback_error ==
    /\ loadpc = "load_fallback"
    /\ loads' = Append(loads, [name |-> FallbackModel, outcome |-> "error"])
    /\ loadpc' = "crashed"
    /\ UNCHANGED <<service, cuda, model_name, memory_fraction, boot, downgrades, reqvars>>
    /\ UNCHANGED <<language, purevars>>

\* Cleanup after loading, then app.run.
post_load ==
    /\ loadpc = "loaded"
    /\ boot' = boot
               \o (IF service = TTS_OPT THEN <<"gc_collect">> ELSE <<>>)
               \o (IF cuda /\ service \in Optimized THEN <<"empty_cache">> ELSE <<>>)
    /\ loadpc' = "serving"
    /\ UNCHANGED <<service, cuda, loads, model_name, memory_fraction, downgrades, reqvars>>
    /\ UNCHANGED <<language, purevars>>

\* The module global `model`: the object the last successful load_model call
\* returned, identified by the name it was loaded under; Unset while unbound.
RECURSIVE LastLoaded(_)
LastLoaded(i) ==
    IF i = 0 THEN Unset
    ELSE IF loads[i].outcome = "ok" THEN loads[i].name
    ELSE LastLoaded(i - 1)

model == LastLoaded(Len(loads))

(***************************************************************************)
(* Housekeeping.                                                           *)
(***************************************************************************)

\* finally-branch of gpu_memory_manager: empty_cache when CUDA is there, gc.collect.
Sweep == (IF cuda THEN <<"empty_cache">> ELSE <<>>) \o <<"gc_collect">>

\* The OutOfMemoryError branch: torch.cuda.empty_cache(); gc.collect().
EmergencySweep == <<"empty_cache", "gc_collect">>

(***************************************************************************)
(* Transcription handlers (transcribe, transcribe_custom).                 *)
(***************************************************************************)

\* language_map of the base STT service; a key it does not hold stays as it is.
language_map(l) ==
    CASE l = "en" -> "english"
      [] l = "ru" -> "russian"
      [] l = "uk" -> "ukrainian"
      [] l = "auto" -> None
      [] OTHER -> l

\* The language keyword of model.transcribe.  The base service computes
\* language_map[language] and then passes the literal "russian"; the
\* optimized service passes the form field as it came, "ru" when absent.
TranscribeLanguage(svc, l) ==
    CASE svc = STT_BASE -> "russian"
      [] svc = STT_OPT -> (IF l = None THEN "ru" ELSE l)
      [] OTHER -> Unset

\* The filename check exists only in the OpenAI-format route of the optimized service.
ChecksFilename(svc, ep) == svc = STT_OPT /\ ep = "/v1/audio/transcriptions"

\* The handler's validation of the upload: the 400 body, or "" when it passes.
UploadRejection(svc, ep, f) ==
    IF f = None THEN "No audio file provided"
    ELSE IF ChecksFilename(svc, ep) /\ f = "" THEN "No file selected"
    ELSE ""

transcribe_begin(r) ==
    /\ loadpc = "serving"
    /\ service \in Transcribers
    /\ pc[r] = "idle"
    /\ \E ep \in Endpoints(service), f \in FileInputs, l \in LanguageInputs :
          /\ req' = [req EXCEPT ![r] =
                [endpoint |-> ep, file |-> f, text |-> None,
                 language |-> IF UploadRejection(service, ep, f) # "" THEN None ELSE l]]
          /\ IF UploadRejection(service, ep, f) # ""
             THEN /\ response' = [response EXCEPT ![r] =
                        [status |-> 400, body |-> UploadRejection(service, ep, f)]]
                  /\ pc' = [pc EXCEPT ![r] = "done"]
             ELSE /\ response' = response
                  /\ pc' = [pc EXCEPT ![r] = "save"]
    /\ UNCHANGED <<procvars, events, outcome, errmsg, raised, attempt, tmpfile>>
    /\ UNCHANGED <<language, purevars>>

\* NamedTemporaryFile(delete=False) is created and the upload saved into it.
transcribe_save_ok(r) ==
    /\ service \in Transcribers
    /\ pc[r] = "save"
    /\ tmpfile' = [tmpfile EXCEPT ![r] = "exists"]
    /\ pc' = [pc EXCEPT ![r] = "call"]
    /\ UNCHANGED <<procvars, req, events, outcome, errmsg, raised, attempt, response>>
    /\ UNCHANGED <<language, purevars>>

\* audio_file.save raises: the handler's except answers 500, the file stays.
transcribe_save_error(r) ==
    /\ service \in Transcribers
    /\ pc[r] = "save"
    /\ tmpfile' = [tmpfile EXCEPT ![r] = "exists"]
    /\ response' = [response EXCEPT ![r] =
          [status |-> 500, body |-> "No space left on device"]]
    /\ pc' = [pc EXCEPT ![r] = "done"]
    /\ UNCHANGED <<procvars, req, events, outcome, errmsg, raised, attempt>>
    /\ UNCHANGED <<language, purevars>>

(***************************************************************************)
(* Synthesis handlers (synthesize_openai_format, synthesize,               *)
(* text_to_speech).                                                        *)
(***************************************************************************)

\* The 400 body of each synthesis route.
NoTextBody(svc, ep) ==
    IF svc = TTS_OLD THEN "No text input provided"
    ELSE IF svc = TTS_OPT /\ ep = "/v1/audio/speech" THEN "No input text provided"
    ELSE "No text provided"

\* str(e) of the AttributeError that data.get raises when data is None.
NoneTypeMessage == "'NoneType' object has no attribute 'get'"

\* What the handler answers when the body is no JSON object: only the old
\* TTS service tests "if not data"; elsewhere data.get raises inside the
\* handler's try and its except answers 500.
NoDataResponse(svc) ==
    IF svc = TTS_OLD
    THEN [status |-> 400, body |-> "No JSON data provided"]
    ELSE [status |-> 500, body |-> NoneTypeMessage]

\* Python's "not text": a missing field and the empty string are both falsy.
Falsy(t) == t = None \/ t = ""

synthesize_begin(r) ==
    /\ loadpc = "serving"
    /\ service \notin Transcribers
    /\ pc[r] = "idle"
    /\ \E ep \in Endpoints(service), t \in TextInputs :
          /\ req' = [req EXCEPT ![r] =
                [endpoint |-> ep, file |-> None, text |-> t, language |-> None]]
          /\ IF t = NoData
             THEN /\ response' = [response EXCEPT ![r] = NoDataResponse(service)]
                  /\ pc' = [pc EXCEPT ![r] = "done"]
             ELSE IF Falsy(t)
             THEN /\ response' = [response EXCEPT ![r] =
                        [status |-> 400, body |-> NoTextBody(service, ep)]]
                  /\ pc' = [pc EXCEPT ![r] = "done"]
             ELSE /\ response' = response
                  /\ pc' = [pc EXCEPT ![r] = "call"]
    /\ UNCHANGED <<procvars, events, outcome, errmsg, raised, attempt, tmpfile>>
    /\ UNCHANGED <<language, purevars>>

(***************************************************************************)
(* The guarded model call of the optimized services                        *)
(* (transcribe_audio, generate_speech under gpu_memory_manager).           *)
(***************************************************************************)

\* with gpu_memory_manager(): try: model.transcribe(...) / model.generate_speech(...)
guard_call(r) ==
    /\ service \in Optimized
    /\ pc[r] = "call"
    /\ events' = [events EXCEPT ![r] = Append(@, "model_call")]
    /\ attempt' = [attempt EXCEPT ![r] = model_name]
    /\ pc' = [pc EXCEPT ![r] = "in_model"]
    /\ UNCHANGED <<procvars, req, outcome, errmsg, raised, tmpfile, response>>
    /\ language' = [language EXCEPT ![r] = TranscribeLanguage(service, req[r].language)]
    /\ UNCHANGED purevars

\* The model returns; the function returns its result through the with-block.
guard_ok(r) ==
    /\ service \in Optimized
    /\ pc[r] = "in_model"
    /\ outcome' = [outcome EXCEPT ![r] = "ok"]
    /\ pc' = [pc EXCEPT ![r] = "ctx_exit"]
    /\ UNCHANGED <<procvars, req, events, errmsg, raised, attempt, tmpfile, response>>
    /\ UNCHANGED <<language, purevars>>

\* An OutOfMemoryError branch that downgrades the model and calls it once more.
guard_oom_downgrade_retry(r) ==
    /\ service \in Optimized
    /\ cuda
    /\ pc[r] = "in_model"
    /\ outcome' = [outcome EXCEPT ![r] = "oom"]
    /\ errmsg' = [errmsg EXCEPT ![r] = OomMessage]
    /\ events' = [events EXCEPT ![r] = @ \o EmergencySweep]
    /\ IF HasFallback(service) /\ model_name = PrimaryModel(service)
       THEN /\ model_name' = FallbackModel
            /\ downgrades' = downgrades + 1
            /\ raised' = raised
            /\ pc' = [pc EXCEPT ![r] = "call"]
       ELSE /\ UNCHANGED <<model_name, downgrades>>
            /\ raised' = [raised EXCEPT ![r] = ExhaustedMessage(service)]
            /\ pc' = [pc EXCEPT ![r] = "ctx_exit"]
    /\ UNCHANGED <<service, cuda, loads, loadpc, memory_fraction, boot, req, attempt,
                   tmpfile, response>>
    /\ UNCHANGED <<language, purevars>>

\* An OutOfMemoryError branch that calls the model again, every time.
guard_oom_retry_always(r) ==
    /\ service \in Optimized
    /\ cuda
    /\ pc[r] = "in_model"
    /\ outcome' = [outcome EXCEPT ![r] = "oom"]
    /\ errmsg' = [errmsg EXCEPT ![r] = OomMessage]
    /\ events' = [events EXCEPT ![r] = @ \o EmergencySweep]
    /\ pc' = [pc EXCEPT ![r] = "call"]
    /\ UNCHANGED <<procvars, req, raised, attempt, tmpfile, response>>
    /\ UNCHANGED <<language, purevars>>

\* An OutOfMemoryError branch that calls the model a second time before giving up.
guard_oom_retry_once(r) ==
    /\ service \in Optimized
    /\ cuda
    /\ pc[r] = "in_model"
    /\ outcome' = [outcome EXCEPT ![r] = "oom"]
    /\ errmsg' = [errmsg EXCEPT ![r] = OomMessage]
    /\ events' = [events EXCEPT ![r] = @ \o EmergencySweep]
    /\ IF Len(events[r]) = 1
       THEN /\ raised' = raised
            /\ pc' = [pc EXCEPT ![r] = "call"]
       ELSE /\ raised' = [raised EXCEPT ![r] = ExhaustedMessage(service)]
            /\ pc' = [pc EXCEPT ![r] = "ctx_exit"]
    /\ UNCHANGED <<procvars, req, attempt, tmpfile, response>>
    /\ UNCHANGED <<language, purevars>>

\* An OutOfMemoryError branch that switches to the fallback model without
\* looking whether that was done before, and does not retry.
guard_oom_downgrade_unchecked(r) ==
    /\ service \in Optimized
    /\ cuda
    /\ pc[r] = "in_model"
    /\ outcome' = [outcome EXCEPT ![r] = "oom"]
    /\ errmsg' = [errmsg EXCEPT ![r] = OomMessage]
    /\ events' = [events EXCEPT ![r] = @ \o EmergencySweep]
    /\ raised' = [raised EXCEPT ![r] = ExhaustedMessage(service)]
    /\ model_name' = FallbackModel
    /\ downgrades' = downgrades + 1
    /\ pc' = [pc EXCEPT ![r] = "ctx_exit"]
    /\ UNCHANGED <<service, cuda, loads, loadpc, memory_fraction, boot, req, attempt,
                   tmpfile, response>>
    /\ UNCHANGED <<language, purevars>>

\* except torch.cuda.OutOfMemoryError: cleanup, then raise Exception(fixed message).
guard_oom(r) ==
    /\ service \in Optimized
    /\ cuda
    /\ pc[r] = "in_model"
    /\ outcome' = [outcome EXCEPT ![r] = "oom"]
    /\ errmsg' = [errmsg EXCEPT ![r] = OomMessage]
    /\ events' = [events EXCEPT ![r] = @ \o EmergencySweep]
    /\ raised' = [raised EXCEPT ![r] = ExhaustedMessage(service)]
    /\ pc' = [pc EXCEPT ![r] = "ctx_exit"]
    /\ UNCHANGED <<procvars, req, attempt, tmpfile, response>>
    /\ UNCHANGED <<language, purevars>>

\* An except branch that wraps the failure in a new exception with its own text.
guard_error_wrapped(r) ==
    /\ service \in Optimized
    /\ pc[r] = "in_model"
    /\ \E m \in ModelMessages :
          /\ errmsg' = [errmsg EXCEPT ![r] = m]
          /\ raised' = [raised EXCEPT ![r] = "Model failed: " \o m]
    /\ outcome' = [outcome EXCEPT ![r] = "error"]
    /\ pc' = [pc EXCEPT ![r] = "ctx_exit"]
    /\ UNCHANGED <<procvars, req, events, attempt, tmpfile, response>>
    /\ UNCHANGED <<language, purevars>>

\* except Exception as e: log and re-raise e itself.
guard_error(r) ==
    /\ service \in Optimized
    /\ pc[r] = "in_model"
    /\ \E m \in ModelMessages :
          /\ errmsg' = [errmsg EXCEPT ![r] = m]
          /\ raised' = [raised EXCEPT ![r] = m]
    /\ outcome' = [outcome EXCEPT ![r] = "error"]
    /\ pc' = [pc EXCEPT ![r] = "ctx_exit"]
    /\ UNCHANGED <<procvars, req, events, attempt, tmpfile, response>>
    /\ UNCHANGED <<language, purevars>>

\* A context manager that cleans up in an except branch instead of finally.
gpu_memory_manager_exit_on_error_only(r) ==
    /\ service \in Optimized
    /\ pc[r] = "ctx_exit"
    /\ events' = [events EXCEPT ![r] = IF raised[r] = "" THEN @ ELSE @ \o Sweep]
    /\ pc' = [pc EXCEPT ![r] = "respond"]
    /\ UNCHANGED <<procvars, req, outcome, errmsg, raised, attempt, tmpfile, response>>
    /\ UNCHANGED <<language, purevars>>

\* The finally of gpu_memory_manager runs on return and on exception alike.
gpu_memory_manager_exit(r) ==
    /\ service \in Optimized
    /\ pc[r] = "ctx_exit"
    /\ events' = [events EXCEPT ![r] = @ \o Sweep]
    /\ pc' = [pc EXCEPT ![r] = "respond"]
    /\ UNCHANGED <<procvars, req, outcome, errmsg, raised, attempt, tmpfile, response>>
    /\ UNCHANGED <<language, purevars>>

\* The 200 body: the transcript, or the attachment name of the wav file.
SuccessBody(svc) == IF svc \in Transcribers THEN "text" ELSE "speech.wav"

\* A handler that goes back to the primary model after a request that worked.
handler_respond_reload_primary(r) ==
    /\ service \in Optimized
    /\ pc[r] = "respond"
    /\ tmpfile' = [tmpfile EXCEPT ![r] = IF service = STT_OPT THEN "deleted" ELSE @]
    /\ response' = [response EXCEPT ![r] =
          IF raised[r] = ""
          THEN [status |-> 200, body |-> SuccessBody(service)]
          ELSE [status |-> 500, body |-> raised[r]]]
    /\ model_name' = IF raised[r] = "" THEN PrimaryModel(service) ELSE model_name
    /\ pc' = [pc EXCEPT ![r] = "done"]
    /\ UNCHANGED <<service, cuda, loads, loadpc, memory_fraction, boot, downgrades,
                   req, events, outcome, errmsg, raised, attempt>>
    /\ UNCHANGED <<language, purevars>>

\* The handler around the guard: finally unlink the upload (transcription only);
\* the result as 200, an exception as 500 with str(e).
handler_respond(r) ==
    /\ service \in Optimized
    /\ pc[r] = "respond"
    /\ tmpfile' = [tmpfile EXCEPT ![r] = IF service = STT_OPT THEN "deleted" ELSE @]
    /\ response' = [response EXCEPT ![r] =
          IF raised[r] = ""
          THEN [status |-> 200, body |-> SuccessBody(service)]
          ELSE [status |-> 500, body |-> raised[r]]]
    /\ pc' = [pc EXCEPT ![r] = "done"]
    /\ UNCHANGED <<procvars, req, events, outcome, errmsg, raised, attempt>>
    /\ UNCHANGED <<language, purevars>>

(***************************************************************************)
(* The unguarded model call of the base STT, the old TTS and the VITS       *)
(* services.                                                               *)
(***************************************************************************)

\* str(e) as the handler's except puts it into the 500 body.
ErrorBody(svc, m) == IF svc = TTS_OLD THEN "TTS processing failed: " \o m ELSE m

\* What the model may raise: out-of-memory only where CUDA is in use.
Failures == ModelMessages \cup (IF cuda THEN {OomMessage} ELSE {})

direct_call(r) ==
    /\ service \notin Optimized
    /\ pc[r] = "call"
    /\ events' = [events EXCEPT ![r] = Append(@, "model_call")]
    /\ attempt' = [attempt EXCEPT ![r] = model_name]
    /\ pc' = [pc EXCEPT ![r] = "in_model"]
    /\ UNCHANGED <<procvars, req, outcome, errmsg, raised, tmpfile, response>>
    /\ language' = [language EXCEPT ![r] = TranscribeLanguage(service, req[r].language)]
    /\ UNCHANGED purevars

\* The model returns: os.unlink(tmp_file.name), then the 200 response.
direct_ok(r) ==
    /\ service \notin Optimized
    /\ pc[r] = "in_model"
    /\ outcome' = [outcome EXCEPT ![r] = "ok"]
    /\ tmpfile' = [tmpfile EXCEPT ![r] = IF service = STT_BASE THEN "deleted" ELSE @]
    /\ response' = [response EXCEPT ![r] =
          [status |-> 200, body |-> SuccessBody(service)]]
    /\ pc' = [pc EXCEPT ![r] = "done"]
    /\ UNCHANGED <<procvars, req, events, errmsg, raised, attempt>>
    /\ UNCHANGED <<language, purevars>>

\* The model raises: control leaves the with-block for the handler's except.
direct_raise(r) ==
    /\ service \notin Optimized
    /\ pc[r] = "in_model"
    /\ \E m \in Failures :
          /\ errmsg' = [errmsg EXCEPT ![r] = m]
          /\ raised' = [raised EXCEPT ![r] = m]
          /\ outcome' = [outcome EXCEPT ![r] = IF m = OomMessage THEN "oom" ELSE "error"]
          /\ response' = [response EXCEPT ![r] =
                [status |-> 500, body |-> ErrorBody(service, m)]]
    /\ pc' = [pc EXCEPT ![r] = "done"]
    /\ UNCHANGED <<procvars, req, events, attempt, tmpfile>>
    /\ UNCHANGED <<language, purevars>>

Next ==
    \/ module_init
    \/ load_primary_ok
    \/ load_primary_oom
    \/ load_primary_error
    \/ load_fallback_ok
    \/ load_fallback_error
    \/ post_load
    \/ \E r \in Requests : transcribe_begin(r)
    \/ \E r \in Requests : transcribe_save_ok(r)
    \/ \E r \in Requests : transcribe_save_error(r)
    \/ \E r \in Requests : synthesize_begin(r)
    \/ \E r \in Requests : guard_call(r)
    \/ \E r \in Requests : guard_ok(r)
    \/ \E r \in Requests : guard_oom(r)
    \/ \E r \in Requests : guard_error(r)
    \/ \E r \in Requests : gpu_memory_manager_exit(r)
    \/ \E r \in Requests : handler_respond(r)
    \/ \E r \in Requests : direct_call(r)
    \/ \E r \in Requests : direct_ok(r)
    \/ \E r \in Requests : direct_raise(r)

Spec == Init /\ [][Next]_vars

(***************************************************************************)
(* What a request's event log says.                                        *)
(***************************************************************************)

\* Positions of the model calls of request r.
CallIndexes(r) == {i \in 1..Len(events[r]) : events[r][i] = "model_call"}

\* How often request r called the model.
Calls(r) == Cardinality(CallIndexes(r))

\* Position of the last model call of request r (0 when there is none).
LastCall(r) ==
    IF CallIndexes(r) = {} THEN 0
    ELSE CHOOSE i \in CallIndexes(r) : \A j \in CallIndexes(r) : j <= i

\* Event e is logged after position i of request r.
LoggedAfter(r, e, i) == \E j \in (i + 1)..Len(events[r]) : events[r][j] = e

\* Event e is logged before position i of request r.
LoggedBefore(r, e, i) == \E j \in 1..(i - 1) : events[r][j] = e

\* A housekeeping sweep (cache release where there is an accelerator, and
\* garbage collection) follows the last model call of request r.
SweptAfterCall(r) ==
    /\ LoggedAfter(r, "gc_collect", LastCall(r))
    /\ cuda => LoggedAfter(r, "empty_cache", LastCall(r))

\* The guard has handed its result or its exception to the handler.
LeftGuard(r) == pc[r] \in {"respond", "done"}

\* The request is between the start of its model call and the post-call sweep.
InInvocation(r) == pc[r] \in {"in_model", "ctx_exit"}

\* The request's model call reported resource exhaustion to the guard.
Exhausted(r) == service \in Optimized /\ outcome[r] = "oom"

(***************************************************************************)
(* preprocess_russian_text, the text normalizer of the synthesis services, *)
(* taken on its own.  A text is a sequence of one-character strings.  Each *)
(* Cyrillic letter of the source's tables is written as one Latin letter   *)
(* (c for tse, h for che, w for sha, y for yery, x for the soft sign, q    *)
(* for ya, j for short i), so every text keeps its length.                 *)
(***************************************************************************)

\* Length of the longest text that is enumerated letter by letter.
MaxTextLen == 4

\* max_length of the optimized service and the literal of the old one: 500
\* in the source, scaled down so that the enumerated texts lie on both sides
\* of it.
max_length == 4

\* The services that define preprocess_russian_text.
Normalizers == {TTS_OLD, TTS_OPT, TTS_SOFT, TTS_VITS}

digits == <<"0", "1", "2", "3", "4", "5", "6", "7", "8", "9">>

DigitChars == {digits[i] : i \in 1..Len(digits)}

Letters ==
    {"a", "b", "c", "d", "e", "f", "g", "h", "i", "j", "k", "l", "m",
     "n", "o", "p", "q", "r", "s", "t", "u", "v", "w", "x", "y", "z"}

\* \w of the regular expressions.
IsWord(c) == c \in Letters \cup DigitChars \cup {"_"}

\* \s of the regular expressions, and what str.strip removes.
Whitespace == {" ", "\t", "\n"}

\* The punctuation that [^\w\s\.,!?;:-] keeps.
Kept == {".", ",", "!", "?", ";", ":", "-"}

\* The replace calls that expand abbreviations, in the order of the source.
abbreviations ==
    << <<<<"t", ".", "d", ".">>,
         <<"t", "a", "k", " ", "d", "a", "l", "e", "e">>>>,
       <<<<"t", ".", "p", ".">>,
         <<"t", "o", "m", "u", " ", "p", "o", "d", "o", "b", "n", "o", "e">>>>,
       <<<<"i", " ", "t", ".", "d", ".">>,
         <<"i", " ", "t", "a", "k", " ", "d", "a", "l", "e", "e">>>>,
       <<<<"t", ".", "e", ".">>,
         <<"t", "o", " ", "e", "s", "t", "x">>>>,
       <<<<"d", "r", ".">>,
         <<"d", "r", "u", "g", "o", "j">>>>,
       <<<<"g", ".">>,
         <<"g", "o", "d">>>> >>

\* The last replace call, 'g.', exists only in the soft-voice service.
Abbreviations(n) ==
    IF n = TTS_SOFT THEN abbreviations
    ELSE SubSeq(abbreviations, 1, Len(abbreviations) - 1)

\* The words of convert_number_to_words, from zero on.
numbers ==
    << <<"n", "o", "l", "x">>,
       <<"o", "d", "i", "n">>,
       <<"d", "v", "a">>,
       <<"t", "r", "i">>,
       <<"h", "e", "t", "y", "r", "e">>,
       <<"p", "q", "t", "x">>,
       <<"w", "e", "s", "t", "x">>,
       <<"s", "e", "m", "x">>,
       <<"v", "o", "s", "e", "m", "x">>,
       <<"d", "e", "v", "q", "t", "x">>,
       <<"d", "e", "s", "q", "t", "x">>,
       <<"o", "d", "i", "n", "n", "a", "d", "c", "a", "t", "x">>,
       <<"d", "v", "e", "n", "a", "d", "c", "a", "t", "x">>,
       <<"t", "r", "i", "n", "a", "d", "c", "a", "t", "x">>,
       <<"h", "e", "t", "y", "r", "n", "a", "d", "c", "a", "t", "x">>,
       <<"p", "q", "t", "n", "a", "d", "c", "a", "t", "x">>,
       <<"w", "e", "s", "t", "n", "a", "d", "c", "a", "t", "x">>,
       <<"s", "e", "m", "n", "a", "d", "c", "a", "t", "x">>,
       <<"v", "o", "s", "e", "m", "n", "a", "d", "c", "a", "t", "x">>,
       <<"d", "e", "v", "q", "t", "n", "a", "d", "c", "a", "t", "x">>,
       <<"d", "v", "a", "d", "c", "a", "t", "x">> >>


\* The largest number convert_number_to_words has a word for.
LargestWord(n) == IF n = TTS_SOFT THEN 20 ELSE 10

RECURSIVE lstrip(_)
lstrip(s) == IF s # <<>> /\ Head(s) \in Whitespace THEN lstrip(Tail(s)) ELSE s

RECURSIVE rstrip(_)
rstrip(s) ==
    IF s # <<>> /\ s[Len(s)] \in Whitespace
    THEN rstrip(SubSeq(s, 1, Len(s) - 1))
    ELSE s

\* str.strip()
strip(s) == rstrip(lstrip(s))

\* re.sub(r'\s+', ' ', s)
RECURSIVE collapse(_)
collapse(s) ==
    IF s = <<>> THEN <<>>
    ELSE IF Head(s) \in Whitespace THEN <<" ">> \o collapse(lstrip(s))
    ELSE <<Head(s)>> \o collapse(Tail(s))

\* str.replace(old, new): every occurrence, leftmost first, none overlapping.
RECURSIVE replace(_, _, _)
replace(s, old, new) ==
    IF Len(s) < Len(old) THEN s
    ELSE IF SubSeq(s, 1, Len(old)) = old
    THEN new \o replace(SubSeq(s, Len(old) + 1, Len(s)), old, new)
    ELSE <<Head(s)>> \o replace(Tail(s), old, new)

\* The replace calls of a table one after the other, from entry i on.
RECURSIVE replace_all(_, _, _)
replace_all(s, table, i) ==
    IF i > Len(table) THEN s
    ELSE replace_all(replace(s, table[i][1], table[i][2]), table, i + 1)

\* re.sub(r'[^\w\s\.,!?;:-]', '', s)
remove_punctuation(s) ==
    SelectSeq(s, LAMBDA c : IsWord(c) \/ c \in Whitespace \/ c \in Kept)

\* re.sub(r'([marks])\s*', r'\1 ', s)
RECURSIVE space_after(_, _)
space_after(s, marks) ==
    IF s = <<>> THEN <<>>
    ELSE IF Head(s) \in marks
    THEN <<Head(s), " ">> \o space_after(lstrip(Tail(s)), marks)
    ELSE <<Head(s)>> \o space_after(Tail(s), marks)

\* int(m.group())
RECURSIVE int(_, _)
int(s, acc) ==
    IF s = <<>> THEN acc
    ELSE int(Tail(s), acc * 10 + (CHOOSE d \in 0..9 : digits[d + 1] = Head(s)))

\* str(num)
RECURSIVE str(_)
str(num) ==
    IF num < 10 THEN <<digits[num + 1]>>
    ELSE str(num \div 10) \o <<digits[(num % 10) + 1]>>

convert_number_to_words(n, num) ==
    IF num <= LargestWord(n) THEN numbers[num + 1] ELSE str(num)

\* Where the run of digits that starts at position i ends.
RunEnd(s, i) ==
    CHOOSE j \in i..Len(s) :
        /\ \A k \in i..j : s[k] \in DigitChars
        /\ j = Len(s) \/ s[j + 1] \notin DigitChars

\* re.sub(r'\b(\d+)\b', lambda m: convert_number_to_words(int(m.group())), s)
\* from position i on: a run of digits is a match when no word character
\* touches it.
RECURSIVE handle_numbers(_, _, _)
handle_numbers(n, s, i) ==
    IF i > Len(s) THEN <<>>
    ELSE IF s[i] \notin DigitChars THEN <<s[i]>> \o handle_numbers(n, s, i + 1)
    ELSE LET j == RunEnd(s, i)
             run == SubSeq(s, i, j)
             matches == /\ i = 1 \/ ~IsWord(s[i - 1])
                        /\ j = Len(s) \/ ~IsWord(s[j + 1])
         IN  (IF matches THEN convert_number_to_words(n, int(run, 0)) ELSE run)
             \o handle_numbers(n, s, j + 1)

Terminators == {".", "!", "?"}

RECURSIVE skip_terminators(_)
skip_terminators(s) ==
    IF s # <<>> /\ Head(s) \in Terminators THEN skip_terminators(Tail(s)) ELSE s

\* re.split(r'[.!?]+', s)
RECURSIVE split(_)
split(s) ==
    LET ends == {i \in 1..Len(s) : s[i] \in Terminators}
    IN  IF ends = {} THEN <<s>>
        ELSE LET i == CHOOSE i \in ends : \A k \in ends : i <= k
             IN  <<SubSeq(s, 1, i - 1)>>
                 \o split(skip_terminators(SubSeq(s, i, Len(s))))

\* sep.join(parts)
RECURSIVE join(_, _)
join(sep, parts) ==
    IF parts = <<>> THEN <<>>
    ELSE IF Len(parts) = 1 THEN parts[1]
    ELSE parts[1] \o sep \o join(sep, Tail(parts))

\* sentences[:3]
FirstThree(parts) == SubSeq(parts, 1, IF Len(parts) < 3 THEN Len(parts) ELSE 3)

\* s.rsplit(' ', 1)[0]
rsplit_head(s) ==
    LET spaces == {i \in 1..Len(s) : s[i] = " "}
    IN  IF spaces = {} THEN s
        ELSE SubSeq(s, 1, (CHOOSE i \in spaces : \A k \in spaces : k <= i) - 1)

\* A length limit that keeps the first three sentences whatever their length.
truncate_sentences_only(n, s) ==
    CASE n = TTS_OLD ->
            IF Len(s) > max_length
            THEN SubSeq(s, 1, max_length) \o <<".", ".", ".">>
            ELSE s
      [] n = TTS_OPT ->
            IF Len(s) > max_length
            THEN join(<<".", " ">>, FirstThree(split(s)))
            ELSE s
      [] OTHER -> s

\* The length limit: the old service cuts and appends "...", the optimized
\* one keeps the first three sentences and then cuts before the last space;
\* the VITS services have none.
truncate(n, s) ==
    CASE n = TTS_OLD ->
            IF Len(s) > max_length
            THEN SubSeq(s, 1, max_length) \o <<".", ".", ".">>
            ELSE s
      [] n = TTS_OPT ->
            IF Len(s) > max_length
            THEN LET joined == join(<<".", " ">>, FirstThree(split(s)))
                 IN  IF Len(joined) > max_length
                     THEN rsplit_head(SubSeq(joined, 1, max_length))
                     ELSE joined
            ELSE s
      [] OTHER -> s

\* "Add pauses": four replace calls in the soft-voice service, two re.sub
\* calls in the SpeechT5 services.
add_pauses(n, s) ==
    IF n = TTS_SOFT
    THEN replace(replace(replace(replace(s, <<",">>, <<",", " ">>),
                                 <<".">>, <<".", " ">>),
                         <<"!">>, <<"!", " ">>),
                 <<"?">>, <<"?", " ">>)
    ELSE space_after(space_after(s, Terminators), {",", ";", ":"})

\* "Remove extra whitespace" / "Ensure proper spacing".
normalize_whitespace(n, s) ==
    IF n = TTS_OLD THEN strip(collapse(s)) ELSE collapse(strip(s))

\* The statements of preprocess_russian_text of each service, in order.
Statements(n) ==
    CASE n = TTS_OLD -> <<"remove", "pauses", "whitespace", "truncate", "return">>
      [] n = TTS_OPT -> <<"remove", "pauses", "truncate", "return">>
      [] n = TTS_SOFT -> <<"whitespace", "pauses", "abbreviations", "numbers", "return">>
      [] OTHER -> <<"whitespace", "abbreviations", "numbers", "return">>

\* The statement that follows statement st.
Following(n, st) ==
    Statements(n)[(CHOOSE i \in 1..Len(Statements(n)) : Statements(n)[i] = st) + 1]

\* What one statement makes of the text.
Execute(n, st, s) ==
    CASE st = "remove" -> remove_punctuation(s)
      [] st = "pauses" -> add_pauses(n, s)
      [] st = "whitespace" -> normalize_whitespace(n, s)
      [] st = "abbreviations" -> replace_all(s, Abbreviations(n), 1)
      [] st = "numbers" -> handle_numbers(n, s, 1)
      [] st = "truncate" -> truncate(n, s)
      [] OTHER -> s

\* The statements from the i-th on, applied to s.
RECURSIVE ExecuteFrom(_, _, _)
ExecuteFrom(n, s, i) ==
    IF i > Len(Statements(n)) THEN s
    ELSE ExecuteFrom(n, Execute(n, Statements(n)[i], s), i + 1)

\* The whole function.
preprocess_russian_text(n, s) == ExecuteFrom(n, s, 1)

\* The statements from the i-th on up to statement st, applied to s.
RECURSIVE ExecuteUntil(_, _, _, _)
ExecuteUntil(n, s, i, st) ==
    IF i > Len(Statements(n)) \/ Statements(n)[i] = st THEN s
    ELSE ExecuteUntil(n, Execute(n, Statements(n)[i], s), i + 1, st)

\* The length limit leaves the text s whole.
LeftWhole(n, s) == Len(ExecuteUntil(n, s, 1, "truncate")) <= max_length

\* The letters the enumerated texts are made of.
Alphabet == {"a", "5", " ", ".", ","}

\* Whitespace between an abbreviation and a number.
WhitespaceRuns == {<<" ">>, <<" ", " ">>, <<"\t", " ">>}

\* An abbreviation of the table, whitespace, a number.
AbbreviationTexts ==
    {abbreviations[i][1] \o ws \o str(num) :
        i \in 1..Len(abbreviations), ws \in WhitespaceRuns, num \in {5, 10}}

\* Texts of characters the SpeechT5 services remove.
SymbolTexts == {<<"@">>, <<"@", "@">>, <<"a", "@">>}

\* A word longer than the limit, alone and after a short word.
LongTexts ==
    {[i \in 1..(max_length + 1) |-> "a"],
     [i \in 1..(max_length + 2) |-> IF i = 2 THEN " " ELSE "a"]}

\* Numbers with leading zeros, above ten, above twenty, next to a letter.
NumberTexts ==
    {<<"0", "0", "7">>, <<"0", "2", "1">>, <<"1", "5">>, <<"2", "1">>,
     <<"a", "1", "5">>}

Texts ==
    UNION {[1..k -> Alphabet] : k \in 0..MaxTextLen}
        \cup AbbreviationTexts \cup SymbolTexts \cup LongTexts \cup NumberTexts

InitNormalizer ==
    /\ ServerIdle
    /\ EnhIdle
    /\ normalizer \in Normalizers
    /\ text \in Texts
    /\ step = "received"
    /\ result = <<>>

\* if not text: return ... 400; otherwise text = preprocess_russian_text(text)
check_text ==
    /\ step = "received"
    /\ IF text = <<>>
       THEN step' = "rejected" /\ result' = result
       ELSE step' = Statements(normalizer)[1] /\ result' = text
    /\ UNCHANGED <<normalizer, text, servervars, enhvars>>

\* One statement of preprocess_russian_text.
statement(st) ==
    /\ step = st
    /\ result' = Execute(normalizer, st, result)
    /\ step' = Following(normalizer, st)
    /\ UNCHANGED <<normalizer, text, servervars, enhvars>>

\* return text: the handler hands the text to the tokenizer and the model.
return_text ==
    /\ step = "return"
    /\ step' = "model"
    /\ UNCHANGED <<normalizer, text, result, servervars, enhvars>>

NextNormalizer ==
    \/ check_text
    \/ statement("remove")
    \/ statement("pauses")
    \/ statement("whitespace")
    \/ statement("abbreviations")
    \/ statement("numbers")
    \/ statement("truncate")
    \/ return_text

SpecNormalizer == InitNormalizer /\ [][NextNormalizer]_vars

\* The text of which the length limit keeps a prefix: the whole text in the
\* old service, the first three sentences in the optimized one.
CutSource(n, s) ==
    IF n = TTS_OPT THEN join(<<".", " ">>, FirstThree(split(s))) ELSE s

\* Position k of s lies inside a word: a word character on either side.
MidWord(s, k) == k >= 1 /\ k < Len(s) /\ IsWord(s[k]) /\ IsWord(s[k + 1])

\* The text s with every run of digits from position i on spelled out when
\* numbers has a word for its value, and left as it is otherwise.
RECURSIVE EveryRunSpelled(_, _)
EveryRunSpelled(s, i) ==
    IF i > Len(s) THEN <<>>
    ELSE IF s[i] \notin DigitChars THEN <<s[i]>> \o EveryRunSpelled(s, i + 1)
    ELSE LET j == RunEnd(s, i)
             run == SubSeq(s, i, j)
         IN  (IF int(run, 0) < Len(numbers) THEN numbers[int(run, 0) + 1] ELSE run)
             \o EveryRunSpelled(s, j + 1)

\* s holds the text sub.
Contains(s, sub) ==
    \E i \in 1..(Len(s) - Len(sub) + 1) : SubSeq(s, i, i + Len(sub) - 1) = sub

(***************************************************************************)
(* enhance_voice_quality, the audio enhancer of the soft-voice service,    *)
(* taken on its own.  A waveform is a sequence of samples; a sample is a   *)
(* fixed-point number, Scale standing for the amplitude 1.0, or NaN.       *)
(***************************************************************************)

\* Length of the longest waveform that is enumerated.
MaxSamples == 4

\* delay_samples = int(0.02 * sample_rate): 441 in the source, scaled down so
\* that the enumerated waveforms lie on both sides of it.
delay_samples == 2

\* The amplitude 1.0.
Scale == 100

\* What 0.0 / 0.0 gives: not a number.  No finite sample is this large.
NaN == Scale * Scale

\* Sample values of the enumerated waveforms: loud, silent, soft.
Amplitudes == {0 - (9 * Scale) \div 10, 0, (3 * Scale) \div 10}

Waveforms == UNION {[1..k -> Amplitudes] : k \in 1..MaxSamples}

Abs(x) == IF x < 0 THEN 0 - x ELSE x

\* np.sign
Sign(x) == IF x < 0 THEN 0 - 1 ELSE IF x > 0 THEN 1 ELSE 0

\* Division of fixed-point numbers, rounded towards zero.
Quotient(a, b) == Sign(a) * Sign(b) * (Abs(a) \div Abs(b))

Silent(s) == \A i \in 1..Len(s) : s[i] = 0

\* new_length = int(len(audio) / pitch_factor), pitch_factor = 1.08: the
\* quotient cut to an integer.  (In double precision the quotient of a few
\* multiples of 27, 135 the smallest, falls just below the exact one and
\* int() gives one less; no enumerated waveform is that long.)
new_length(s) == (Len(s) * 100) \div 108

\* What scipy's resample and sosfilt may return for a waveform s, n samples
\* long: both are linear, so silence stays silence; of any other waveform
\* the model keeps no more than that the result is finite.
Filtered(s, n) ==
    IF Silent(s) THEN {[i \in 1..n |-> 0]} ELSE [1..n -> Amplitudes]

\* threshold = 0.6
threshold == (6 * Scale) \div 10

\* ratio = 4.0
ratio == 4

\* np.where(abs > threshold, sign * (threshold + (abs - threshold) / ratio), x)
compress(s) ==
    [i \in 1..Len(s) |->
        IF Abs(s[i]) > threshold
        THEN Sign(s[i]) * (threshold + Quotient(Abs(s[i]) - threshold, ratio))
        ELSE s[i]]

\* if len(reverb) > delay_samples:
\*     reverb[delay_samples:] += compressed[:-delay_samples] * 0.15
add_reverb(s) ==
    IF Len(s) > delay_samples
    THEN [i \in 1..Len(s) |->
            IF i > delay_samples
            THEN s[i] + Quotient(s[i - delay_samples] * 15, 100)
            ELSE s[i]]
    ELSE s

\* np.max(np.abs(s)) of a waveform that is not empty; NaN when a sample is.
Peak(s) ==
    IF \E i \in 1..Len(s) : s[i] = NaN THEN NaN
    ELSE CHOOSE p \in {Abs(s[i]) : i \in 1..Len(s)} :
            \A i \in 1..Len(s) : Abs(s[i]) <= p

\* s / np.max(np.abs(s)) * level: every sample is NaN when the peak is zero
\* (0.0 / 0.0) or NaN.
normalize(s, level) ==
    [i \in 1..Len(s) |->
        IF Peak(s) = 0 \/ Peak(s) = NaN THEN NaN
        ELSE Quotient(s[i] * level, Peak(s))]

\* The level of enhance_voice_quality, 0.95, and of synthesize, 0.9.
EnhancerLevel == (95 * Scale) \div 100
HandlerLevel == (9 * Scale) \div 10

\* np.tanh, by its Pade approximant x (15 + x^2) / (15 + 6 x^2), which is
\* increasing and within 0.001 of tanh for |x| <= 1.2.
tanh(x) ==
    IF x = NaN THEN NaN
    ELSE Quotient(x * (15 * Scale * Scale + x * x),
                  15 * Scale * Scale + 6 * x * x)

\* np.tanh(x * 1.2) * 0.8 of one sample
saturate(x) ==
    IF x = NaN THEN NaN
    ELSE Quotient(tanh(Quotient(x * 12, 10)) * 8, 10)

\* The saturated value of a sample at the normalization level.
Ceiling == saturate(EnhancerLevel)

InitEnhancer ==
    /\ ServerIdle
    /\ NormIdle
    /\ samples \in Waveforms
    /\ stage = "pitch"
    /\ audio = samples
    /\ sample_rate = 22050

\* scipy.signal.resample(audio, new_length) returns new_length samples (an
\* empty array for new_length = 0, where it does not raise).
pitch_shift ==
    /\ stage = "pitch"
    /\ audio' \in Filtered(audio, new_length(audio))
    /\ stage' = "lowpass"
    /\ UNCHANGED <<samples, sample_rate, servervars, normvars>>

\* resample raises for new_length = 0 (its inverse transform has no length
\* to work on); the exception leaves enhance_voice_quality.
pitch_shift_error ==
    /\ stage = "pitch"
    /\ new_length(audio) = 0
    /\ stage' = "raised"
    /\ UNCHANGED <<samples, audio, sample_rate, servervars, normvars>>

\* scipy.signal.sosfilt(sos, audio_pitched) keeps the length.
low_pass ==
    /\ stage = "lowpass"
    /\ audio' \in Filtered(audio, Len(audio))
    /\ stage' = "compress"
    /\ UNCHANGED <<samples, sample_rate, servervars, normvars>>

compression ==
    /\ stage = "compress"
    /\ audio' = compress(audio)
    /\ stage' = "reverb"
    /\ UNCHANGED <<samples, sample_rate, servervars, normvars>>

reverberation ==
    /\ stage = "reverb"
    /\ audio' = add_reverb(audio)
    /\ stage' = "normalize"
    /\ UNCHANGED <<samples, sample_rate, servervars, normvars>>

\* reverb = reverb / np.max(np.abs(reverb)) * 0.95; np.max raises on an
\* empty array.
peak_normalize ==
    /\ stage = "normalize"
    /\ IF audio = <<>>
       THEN stage' = "raised" /\ audio' = audio
       ELSE stage' = "saturate" /\ audio' = normalize(audio, EnhancerLevel)
    /\ UNCHANGED <<samples, sample_rate, servervars, normvars>>

\* reverb = np.tanh(reverb * 1.2) * 0.8; return reverb
saturation ==
    /\ stage = "saturate"
    /\ audio' = [i \in 1..Len(audio) |-> saturate(audio[i])]
    /\ stage' = "returned"
    /\ UNCHANGED <<samples, sample_rate, servervars, normvars>>

\* synthesize: audio = audio / np.max(np.abs(audio)) * 0.9, then sf.write
handler_normalize ==
    /\ stage = "returned"
    /\ audio' = normalize(audio, HandlerLevel)
    /\ sample_rate' = 22050
    /\ stage' = "written"
    /\ UNCHANGED <<samples, servervars, normvars>>

\* except Exception as e: return jsonify({'error': str(e)}), 500
handler_except ==
    /\ stage = "raised"
    /\ stage' = "answered_500"
    /\ UNCHANGED <<samples, audio, sample_rate, servervars, normvars>>

NextEnhancer ==
    \/ pitch_shift
    \/ pitch_shift_error
    \/ low_pass
    \/ compression
    \/ reverberation
    \/ peak_normalize
    \/ saturation
    \/ handler_normalize
    \/ handler_except

SpecEnhancer == InitEnhancer /\ [][NextEnhancer]_vars

(***************************************************************************)
(* Claims.                                                                 *)
(***************************************************************************)

C2_AtMostTwoCalls == \A r \in Requests : Calls(r) <= 2

C2_Witness ==
    \E r, q \in Requests :
        /\ r # q
        /\ pc[r] = "done"
        /\ Exhausted(r)
        /\ Calls(r) = 1
        /\ Exhausted(q)
        /\ InInvocation(q)

\* C3: where no fallback is left (the service has none, or the fallback is
\* already the active model), a request whose model call reports resource
\* exhaustion makes exactly one model call and is answered with the fixed
\* resource-exhaustion message, which no other model failure is answered
\* with.
C3_ExhaustedWithoutFallback ==
    \A r \in Requests :
        (/\ pc[r] = "done"
         /\ Exhausted(r)
         /\ (~HasFallback(service) \/ attempt[r] = FallbackModel))
        => /\ Calls(r) = 1
           /\ response[r] = [status |-> 500, body |-> ExhaustedMessage(service)]
           /\ \A q \in Requests :
                 (pc[q] = "done" /\ outcome[q] = "error") => response[q] # response[r]

C3_Witness ==
    \E r, q \in Requests :
        /\ ~HasFallback(service)
        /\ pc[r] = "done"
        /\ Exhausted(r)
        /\ pc[q] = "done"
        /\ outcome[q] = "error"

\* C4: the active model identifier, once set, changes at most from primary
\* to fallback; once it is the fallback it stays the fallback; and after a
\* downgrade every request is served by the fallback.
C4_OneWayDowngrade ==
    [][/\ model_name = FallbackModel => model_name' = FallbackModel
       /\ (model_name # Unset /\ model_name' # model_name)
             => (model_name = PrimaryModel(service) /\ model_name' = FallbackModel)
       /\ downgrades > 0 => downgrades' = downgrades
       /\ \A r \in Requests :
             (downgrades' > 0 /\ attempt'[r] # Unset) => attempt'[r] = FallbackModel]_vars

C4_Witness ==
    \E r, q \in Requests :
        /\ downgrades = 1
        /\ model_name = FallbackModel
        /\ pc[r] = "done"
        /\ response[r].status = 200
        /\ attempt[r] = FallbackModel
        /\ attempt[q] = FallbackModel
        /\ InInvocation(q)

C6_SerializedModelAccess ==
    service \in Optimized => Cardinality({r \in Requests : InInvocation(r)}) <= 1

\* C7 (as stated): in every service, once a request that called the model
\* is answered, a housekeeping sweep has followed its last model call.
C7_SweepAfterEveryCall ==
    \A r \in Requests :
        (pc[r] = "done" /\ Calls(r) > 0) => SweptAfterCall(r)

\* C7 (amended): in the optimized services, whenever the guard has handed a
\* result or an exception to the handler, a housekeeping sweep has followed
\* the model call: on success, on resource exhaustion and on any other
\* failure.
C7_SweepAfterGuardedCall ==
    \A r \in Requests :
        (service \in Optimized /\ LeftGuard(r) /\ Calls(r) > 0) => SweptAfterCall(r)

C7_Witness ==
    \E r, q \in Requests :
        /\ service \in Optimized
        /\ cuda
        /\ pc[r] = "done" /\ outcome[r] = "ok"
        /\ pc[q] = "done" /\ outcome[q] = "error"

\* C8 (as stated): a request inside its model call has, earlier in the same
\* invocation, applied the memory cap and run a housekeeping sweep.
C8_SweepBeforeCallInInvocation ==
    \A r \in Requests :
        (service \in Optimized /\ pc[r] = "in_model")
        => /\ LoggedBefore(r, "gc_collect", LastCall(r))
           /\ cuda => LoggedBefore(r, "set_fraction", LastCall(r))

\* C8 (amended): in the optimized services the memory cap is applied and
\* the accelerator cache released once, at process start, when there is an
\* accelerator; within an invocation nothing precedes the model call: the
\* cap is never applied there and the sweep only follows the call.
C8_CapAtStartupSweepAfterCall ==
    \A r \in Requests :
        (service \in Optimized /\ Calls(r) > 0)
        => /\ cuda => /\ memory_fraction = MemoryFraction(service)
                      /\ boot[1] = "set_fraction"
                      /\ boot[2] = "empty_cache"
           /\ ~cuda => memory_fraction = 0
           /\ events[r][1] = "model_call"
           /\ \A i \in 1..Len(events[r]) : events[r][i] # "set_fraction"

C8_Witness ==
    \E r \in Requests :
        /\ service \in Optimized
        /\ cuda
        /\ pc[r] = "in_model"

\* C9 (as stated): in every service, a request whose model call failed for
\* another reason than resource exhaustion called the model once and is
\* answered 500 with the failure's own message, the active model unchanged.
C9_MessageUnmodified ==
    \A r \in Requests :
        (pc[r] = "done" /\ outcome[r] = "error")
        => /\ Calls(r) = 1
           /\ response[r] = [status |-> 500, body |-> errmsg[r]]
           /\ model_name = attempt[r]

\* C9 (amended): such a request called the model once, the active model is
\* unchanged, and the answer is 500 with the failure's own message, except
\* in the old TTS service, which puts "TTS processing failed: " before it.
C9_MessagePassedThrough ==
    \A r \in Requests :
        (pc[r] = "done" /\ outcome[r] = "error")
        => /\ Calls(r) = 1
           /\ response[r].status = 500
           /\ response[r].body =
                 (IF service = TTS_OLD
                  THEN "TTS processing failed: " \o errmsg[r]
                  ELSE errmsg[r])
           /\ model_name = attempt[r]

C9_Witness ==
    \E r \in Requests :
        /\ service \in Optimized
        /\ pc[r] = "done"
        /\ outcome[r] = "error"
        /\ response[r].body \in ModelMessages

\* C10 (as stated): once a transcription request that called the model is
\* answered, its temporary upload file is deleted.
C10_TempFileDeleted ==
    \A r \in Requests :
        (service \in Transcribers /\ pc[r] = "done" /\ Calls(r) > 0)
        => tmpfile[r] = "deleted"

\* C11 (as stated): a synthesis request whose text is missing or empty is
\* answered with a 4xx status and has called the model zero times, in every
\* synthesis endpoint.
C11_MissingTextRejected ==
    \A r \in Requests :
        (/\ service \notin Transcribers
         /\ pc[r] = "done"
         /\ (req[r].text = NoData \/ Falsy(req[r].text)))
        => /\ response[r].status \in 400..499
           /\ Calls(r) = 0

\* C12 (as stated): the language handed to the model is the mapped value
\* of the request's language hint; for the hint "auto" it is null and never
\* the literal "auto".
C12_MappedLanguage ==
    \A r \in Requests :
        (service \in Transcribers /\ Calls(r) > 0 /\ req[r].language # None)
        => /\ language[r] = language_map(req[r].language)
           /\ req[r].language = "auto" => language[r] = None

\* C13 (as stated): a transcription request whose audio is missing or
\* empty is answered with a 4xx status, and no temporary file was written
\* and the model was not called for it, in every transcription endpoint.
C13_MissingAudioRejected ==
    \A r \in Requests :
        (/\ service \in Transcribers
         /\ pc[r] # "idle"
         /\ req[r].file \in {None, ""})
        => /\ tmpfile[r] = "none"
           /\ Calls(r) = 0
           /\ pc[r] = "done" => response[r].status \in 400..499

\* C14 (as stated): the text the normalizer returns is never longer than
\* the maximum length, whatever the input.
C14_AtMostMaxLength == step = "model" => Len(result) <= max_length

\* C14 (amended): the normalizer of the optimized TTS service returns at
\* most max_length characters; the one of the old TTS service returns at
\* most max_length characters followed by "...", three more.
C14_LimitOfEachService ==
    step = "model"
    => /\ normalizer = TTS_OPT => Len(result) <= max_length
       /\ normalizer = TTS_OLD =>
             /\ Len(result) <= max_length + 3
             /\ Len(result) > max_length =>
                   SubSeq(result, max_length + 1, Len(result)) = <<".", ".", ".">>

C14_Witness ==
    /\ step = "model"
    /\ normalizer = TTS_OPT
    /\ Len(add_pauses(TTS_OPT, remove_punctuation(text))) > max_length
    /\ result # <<>>
    /\ Len(result) <= max_length

\* C15 (as stated): normalizing a normalized text changes nothing, for
\* every text that the length limit leaves whole; a punctuation mark that
\* is followed by whitespace gets no further space.
C15_Idempotent ==
    (/\ step = "model"
     /\ normalizer \in {TTS_SOFT, TTS_OPT}
     /\ LeftWhole(normalizer, text))
    => preprocess_russian_text(normalizer, result) = result

\* C16 (as stated): for a text made of an abbreviation of the table,
\* whitespace and a number the normalizer has a word for, the returned text
\* holds the abbreviation's phrase, one space and the number's word.
C16_AbbreviationThenNumber ==
    (step = "model" /\ normalizer \in Vits)
    => \A i \in 1..Len(Abbreviations(normalizer)), ws \in WhitespaceRuns,
          num \in 0..LargestWord(normalizer) :
          text = Abbreviations(normalizer)[i][1] \o ws \o str(num)
          => Contains(result,
                 Abbreviations(normalizer)[i][2] \o <<" ">> \o numbers[num + 1])

\* C17 (as stated): a text that passed the handler's empty-text check is
\* not empty when the normalizer has returned it to be handed to the model.
C17_NonEmptyToModel == step = "model" => result # <<>>

\* C18 (as stated): enhance_voice_quality fails for no finite waveform of
\* one sample or more, waveforms of one sample and waveforms shorter than
\* the reverb delay included.
C18_NeverFails == samples # <<>> => stage \notin {"raised", "answered_500"}

\* C19 (as stated): for a waveform of zeros only, every sample that
\* enhance_voice_quality returns is zero; no sample is NaN.
C19_SilenceStaysSilent ==
    (stage = "returned" /\ Silent(samples))
    => \A i \in 1..Len(audio) : audio[i] = 0

\* C20 (as stated): the absolute value of every sample that
\* enhance_voice_quality returns is at most the saturated value of the
\* normalization level (0.8 tanh(1.2 * 0.95)).
C20_BelowCeiling ==
    stage = "returned"
    => \A i \in 1..Len(audio) : audio[i] # NaN /\ Abs(audio[i]) <= Ceiling

\* C21 (as stated): where the length limit shortens a text, the cut never
\* falls inside a word, also when the kept characters hold no whitespace.
C21_NeverMidWord ==
    (/\ step = "model"
     /\ normalizer \in {TTS_OPT, TTS_OLD}
     /\ ~LeftWhole(normalizer, text))
    => LET source == CutSource(normalizer,
                         ExecuteUntil(normalizer, text, 1, "truncate"))
           kept == IF normalizer = TTS_OLD THEN max_length ELSE Len(result)
       IN  ~MidWord(source, kept)

\* C22 (as stated): in the returned text every run of digits whose value
\* is between 0 and 20 is replaced by its word, and every other run is there
\* digit for digit, whether or not letters touch the run.
C22_EveryRunHandled ==
    (step = "model" /\ normalizer \in Vits)
    => result =
          EveryRunSpelled(ExecuteUntil(normalizer, text, 1, "numbers"), 1)

\* C23 (as stated): the pitch shift leaves round(len(samples) / 1.08)
\* samples and the declared sample rate as it was.
C23_RoundedLength ==
    stage \notin {"idle", "pitch", "raised", "answered_500"}
    => /\ Len(audio) = (Len(samples) * 100 + 54) \div 108
       /\ sample_rate = 22050

\* C24: at the start of the optimized transcriber the model is loaded by at
\* most two attempts, base first and then tiny; tiny is attempted only after
\* the load of base failed with an accelerator out-of-memory error;
\* model_name names the model actually loaded; a failed load of tiny is not
\* retried and the service never starts; once the service serves, no step
\* of a request handler changes model or model_name.
C24_StartupLoad ==
    /\ [](service = STT_OPT =>
            /\ Len(loads) <= 2
            /\ Len(loads) >= 1 => loads[1].name = "base"
            /\ Len(loads) = 2 => /\ loads[2].name = "tiny"
                                 /\ loads[1].outcome = "oom"
                                 /\ cuda
            /\ model_name = model
            /\ loadpc \in {"loaded", "serving"} =>
                  /\ model_name \in {"base", "tiny"}
                  /\ loads[Len(loads)] = [name |-> model_name, outcome |-> "ok"]
            /\ (Len(loads) >= 1 /\ loads[Len(loads)].outcome = "error") =>
                  /\ loadpc = "crashed"
                  /\ \A r \in Requests : pc[r] = "idle"
            /\ (\E r \in Requests : pc[r] # "idle") => loadpc = "serving")
    /\ [][service = STT_OPT =>
            /\ loadpc = "crashed" => UNCHANGED vars
            /\ loadpc = "serving" => UNCHANGED <<loadpc, loads, model_name>>]_vars

C24_Witness ==
    /\ service = STT_OPT
    /\ loads = <<[name |-> "base", outcome |-> "oom"],
                 [name |-> "tiny", outcome |-> "ok"]>>
    /\ model_name = "tiny"
    /\ \E r \in Requests : pc[r] = "done" /\ response[r].status = 200

====
